---- MODULE Spec2Model ----
(***************************************************************************)
(* A model of the fastloop runtime: the timer wheel (timer.rs), the        *)
(* reactor's waker table and run loop (reactor.rs), the task executor      *)
(* (task.rs) and the TCP I/O handles (io.rs).                              *)
(*                                                                         *)
(* The module holds several specifications over one set of variables, one  *)
(* per subsystem; each leaves the other subsystems' variables unchanged.   *)
(*   SpecTimer   : TimerWheel::schedule / TimerEntry::cancel / tick        *)
(*   SpecReactor : Reactor::register_waker / deregister / poll_events      *)
(*   Spec        : Task::spawn / schedule / poll and Reactor::run          *)
(*   FairSpec    : Spec, with the thread that calls run making progress    *)
(*   SpecExec    : Spec without the waker table (no future registers)      *)
(*   FairExec    : SpecExec, with the same progress                        *)
(*   SpecWaker   : the waker vtable and the count of the Arc<Task>         *)
(*   SpecIo      : FastSocket / FastListener register, reregister,         *)
(*                 deregister                                              *)
(***************************************************************************)
EXTENDS Integers, Sequences, FiniteSets, TLC

\* ------------------------------------------------------------------------
\* Program constants
\* ------------------------------------------------------------------------
WHEEL_SIZE == 256
SLOT_DURATION_MS == 10

\* ------------------------------------------------------------------------
\* Bounds of the model
\* ------------------------------------------------------------------------
\* timer entries a behaviour may schedule
MaxTimers == 1
\* tick() calls a behaviour may make after its initial state
MaxTicks == 3
\* tasks (and so distinct wakers) a behaviour may create
MaxTasks == 2
\* waker entries that may be live in the reactor's table at once
MaxSlab == 2
\* events one Poller::poll call may return
MaxEvents == 1
\* I/O handles (FastSocket, FastListener) a behaviour may hold
MaxHandles == 2
\* wakers of one task alive at once, and Arc<Task> handles of one task held at once
MaxRefs == 2

Timers == 1..MaxTimers
Tasks == 1..MaxTasks
\* the tokens callers pass to the reactor: every index the table can hold,
\* and one it never holds
Tokens == 0..MaxSlab
\* the handles; the even ones are FastListeners, the odd ones FastSockets
Handles == 1..MaxHandles
IsListener(h) == h % 2 = 0
\* the threads that call tick(), possibly at the same time
Tickers == {1, 2}
Slots == 0..(WHEEL_SIZE - 1)

\* Delays (in ms) a caller passes to schedule: zero, below one slot, one
\* slot, and past one revolution of the wheel.
Delays == {0, 9, 10, 2565}

\* Numbers of tick() calls completed on a new wheel, with no timer
\* scheduled, before the behaviour starts: a new wheel, and a wheel whose
\* cursor is about to wrap.
StartTicks == {0, 1, 254, 255}

VARIABLES
    \* ---- TimerWheel (timer.rs) ----
    current_slot,   \* TimerWheel.current_slot
    slots,          \* TimerWheel.slots: slot -> FIFO of entry ids (the empty queues left out)
    next_id,        \* TimerWheel.next_id
    timerState,     \* entry -> "none" | "created" | "queued" | "fired" | "skipped"
    expiration_slot,\* entry -> its slot, between schedule's load and its push
    canceled,       \* TimerEntry.canceled
    zeroTicks,      \* entry -> schedule computed ticks = 0 for it
    tickPc,         \* ticker -> "idle" | "drain"
    tickSlot,       \* ticker -> the local current_slot of its tick() call
    tickCanceled,   \* ticker -> entries whose cancel had completed when its tick() began
    earlyCancel,    \* entry -> its cancel completed before the tick that popped it began
    nextTick,       \* entry -> 0: no tick() began since schedule returned; k: ticker k's
                    \*          call is the first; -1: that call has returned
    raced,          \* entry -> a tick() advanced the cursor between schedule's load and push
    ticksStarted,   \* tick() calls begun since new()
    ticksDone,      \* tick() calls returned since new()
    ticksLeft,      \* tick() calls the behaviour may still make (the bound MaxTicks)
    schedDelay,     \* entry -> the delay (ms) passed to the schedule call that made it,
                    \*          until it is popped (-1: none)
    schedCursor,    \* entry -> the cursor value that call loaded (line 54), until it is popped
    tickMove,       \* ticker -> [old, new]: the cursor transition of its tick() call
    popInfo,        \* entry -> [drained, step], for the tick() call that popped it: how far
                    \*          the slot it drained, and the cursor it stored, lie past the
                    \*          cursor it found, in slots modulo 256 (-1: not popped)
    popCount        \* entry -> times a tick() call has popped it

VARIABLES
    \* ---- Reactor (reactor.rs) and Task (task.rs) ----
    wakers,         \* ReactorState.wakers: the slab, [entries, next]
    task_queue,     \* Reactor.task_queue: FIFO of tasks
    is_scheduled,   \* TaskInner.is_scheduled
    panicked,       \* a call has panicked
    \* ---- history of the waker table, kept for the properties ----
    registered,     \* token -> the waker register_waker returned it for, until deregistered
    clash,          \* register_waker has returned a token that was live
    lastFreed,      \* [token, waker] of the last call, when it was a deregister that removed one
    reused,         \* [token, old, new]: the last table call registered `new` under the token
                    \* that the call before it had freed from another waker `old`
    lastEvents,     \* the events of the last poll_events, while the table is unchanged
    lastWoken,      \* the wakers that poll_events invoked, in order
    lastExpected,   \* the wakers registered under those events' tokens, in order
    rtPre,          \* the table as callers saw it before the last register_waker, while
                    \* that call or the deregister of its token is the last table call
    rtTok,          \* the token that register_waker returned, -1 once another call came
    rtDone          \* that token has been deregistered by the very next call

VARIABLES
    \* ---- the thread in Reactor::run, and the tasks ----
    taskState,      \* task -> "none" | "pending" | "ready" (its body has returned Ready)
    runPc,          \* "idle" | "poll_events" | "poll_tasks" | "task_poll" | "body" | "exited"
    cur,            \* the task poll_tasks has popped (0: none)
    polledAny,      \* poll_tasks has popped a task in this call
    firstPoll,      \* task -> "none" | "body" | "skipped": what its first Task::poll call did
    wakesSince,     \* task -> wake calls since Task::poll last cleared its flag: 0, 1, or 2 for more
    pushesSince,    \* task -> pushes on the ready queue since then
    pushing,        \* task -> Task::schedule calls that have set its flag and have not yet
                    \*         pushed it on the ready queue
    polledRound,    \* [task, n]: the task whose body was polled last since the last
                    \* poll_events (0: none), and its polls in a row since then: 1, or 2 for more
    unpolledWake    \* task -> a wake call on it began and its body has not been polled since

VARIABLES
    \* ---- FastSocket / FastListener (io.rs) and the poller's registry ----
    hToken,         \* handle -> its token field (-1: None)
    attached,       \* handle -> the token its source is attached to the poller under (-1: detached)
    ioResult,       \* the last call on a handle returned "ok" or "err" ("none": no call yet)
    regPre          \* [called, live]: whether the last call on a handle was register, and
                    \* the live entries of the waker table when that call began

VARIABLES
    \* ---- the Arc<Task> behind the wakers (task.rs:85-121, waker.rs) ----
    alive,          \* task -> "none" | "live" | "freed": the allocation of its Arc<Task>
    strong,         \* task -> the strong count of its Arc<Task>
    handles,        \* task -> Arc<Task> values held by a spawner or by a running poll
    liveWakers,     \* task -> Waker values alive whose payload is the task's pointer
    lastClone,      \* [task, payload, before, after]: the last clone call, its count before
                    \* the call and after it returned (task 0: no clone yet)
    uaf             \* an operation was applied to an Arc<Task> whose count had reached zero

ioVars == <<hToken, attached, ioResult, regPre>>
wakerVars == <<alive, strong, handles, liveWakers, lastClone, uaf>>
reactorVars == <<wakers, task_queue, is_scheduled, panicked>>
execVars == <<taskState, runPc, cur, polledAny, firstPoll, wakesSince, pushesSince,
              pushing, polledRound, unpolledWake>>
reactorHist == <<registered, clash, lastFreed, reused, lastEvents, lastWoken, lastExpected,
                 rtPre, rtTok, rtDone>>

timerVars == <<current_slot, slots, next_id, timerState, expiration_slot, canceled,
               zeroTicks, tickPc, tickSlot, tickCanceled, earlyCancel, nextTick, raced,
               ticksStarted, ticksDone, ticksLeft,
               schedDelay, schedCursor, tickMove, popInfo, popCount>>

notTimer == <<reactorVars, reactorHist, execVars, ioVars, wakerVars>>
notReactor == <<timerVars, execVars, ioVars, wakerVars>>

vars == <<timerVars, reactorVars, reactorHist, execVars, ioVars, wakerVars>>

\* ------------------------------------------------------------------------
\* TimerWheel
\* ------------------------------------------------------------------------

\* timer.rs:53  ticks = delay.as_millis() / SLOT_DURATION_MS
DelayTicks(delay) == delay \div SLOT_DURATION_MS

\* an expiration slot computed without the modulus
ExpirationSlotNoWrap(cursor, ticks) == cursor + ticks

\* timer.rs:55  expiration_slot = (current_slot + ticks) % WHEEL_SIZE
ExpirationSlot(cursor, ticks) == (cursor + ticks) % WHEEL_SIZE

\* timer.rs:41-44, 66, 79  the queue of a slot
SlotQueue(s) == IF s \in DOMAIN slots THEN slots[s] ELSE <<>>

\* SegQueue::push on the queue of slot s
SlotPush(s, e) == [x \in DOMAIN slots \cup {s} |-> IF x = s THEN Append(SlotQueue(s), e) ELSE slots[x]]

\* SegQueue::pop on the (non-empty) queue of slot s
SlotPop(s) ==
    IF Len(slots[s]) = 1
    THEN [x \in DOMAIN slots \ {s} |-> slots[x]]
    ELSE [slots EXCEPT ![s] = Tail(@)]

\* a cursor update that stores the value it read
AdvanceCursorStuck(val) == val

\* a cursor update that forgets the modulus
AdvanceCursorNoWrap(val) == val + 1

\* timer.rs:75  the closure of fetch_update
AdvanceCursor(val) == (val + 1) % WHEEL_SIZE

\* a tick that fires every entry it pops
ShouldFireAlways(e) == TRUE

\* timer.rs:83  the test that guards wake_by_ref
ShouldFire(e) == ~canceled[e]

\* a fetch_update that returns the value it stored
FetchUpdateStored(prev, stored) == stored

\* timer.rs:72-77  fetch_update returns Ok(previous value), which tick takes
\* as the slot to drain (line 79)
FetchUpdateResult(prev, stored) == prev

NoMove == [old |-> -1, new |-> -1]
NoPop == [drained |-> -1, step |-> -1]

\* TimerWheel::new, followed by c tick() calls on the empty wheel
InitWheel(starts) ==
    /\ \E c \in starts :
          /\ current_slot = c % WHEEL_SIZE
          /\ ticksStarted = c
          /\ ticksDone = c
    /\ ticksLeft = MaxTicks
    /\ slots = <<>>
    /\ next_id = 1
    /\ timerState = [e \in Timers |-> "none"]
    /\ expiration_slot = [e \in Timers |-> 0]
    /\ canceled = [e \in Timers |-> FALSE]
    /\ zeroTicks = [e \in Timers |-> FALSE]
    /\ tickPc = [k \in Tickers |-> "idle"]
    /\ tickSlot = [k \in Tickers |-> 0]
    /\ tickCanceled = [k \in Tickers |-> {}]
    /\ earlyCancel = [e \in Timers |-> FALSE]
    /\ nextTick = [e \in Timers |-> 0]
    /\ raced = [e \in Timers |-> FALSE]
    /\ schedDelay = [e \in Timers |-> -1]
    /\ schedCursor = [e \in Timers |-> -1]
    /\ tickMove = [k \in Tickers |-> NoMove]
    /\ popInfo = [e \in Timers |-> NoPop]
    /\ popCount = [e \in Timers |-> 0]

\* TimerWheel::schedule, lines 53-64: read the cursor, take an id, build the entry
ScheduleLoad(delay) ==
    /\ next_id <= MaxTimers
    /\ LET e == next_id
           ticks == DelayTicks(delay)
       IN  /\ timerState' = [timerState EXCEPT ![e] = "created"]
           /\ expiration_slot' = [expiration_slot EXCEPT ![e] = ExpirationSlot(current_slot, ticks)]
           /\ zeroTicks' = [zeroTicks EXCEPT ![e] = (ticks = 0)]
           /\ next_id' = next_id + 1
           /\ schedDelay' = [schedDelay EXCEPT ![e] = delay]
           /\ schedCursor' = [schedCursor EXCEPT ![e] = current_slot]
    /\ UNCHANGED <<current_slot, slots, canceled, tickPc, tickSlot, tickCanceled,
                   earlyCancel, nextTick, ticksStarted, ticksDone, ticksLeft, raced,
                   tickMove, popInfo, popCount>>
    /\ UNCHANGED notTimer

\* TimerWheel::schedule, lines 66-67: push the entry on its slot and return the handle
SchedulePush(e) ==
    /\ timerState[e] = "created"
    /\ slots' = SlotPush(expiration_slot[e], e)
    /\ timerState' = [timerState EXCEPT ![e] = "queued"]
    /\ expiration_slot' = [expiration_slot EXCEPT ![e] = 0]
    /\ UNCHANGED <<current_slot, next_id, canceled, zeroTicks, tickPc, tickSlot,
                   tickCanceled, earlyCancel, nextTick, ticksStarted, ticksDone, ticksLeft, raced,
                   schedDelay, schedCursor, tickMove, popInfo, popCount>>
    /\ UNCHANGED notTimer

\* TimerEntry::cancel, through the handle schedule returned
Cancel(e) ==
    /\ timerState[e] \in {"queued", "fired", "skipped"}
    /\ ~canceled[e]
    /\ canceled' = [canceled EXCEPT ![e] = TRUE]
    /\ UNCHANGED <<current_slot, slots, next_id, timerState, expiration_slot, zeroTicks,
                   tickPc, tickSlot, tickCanceled, earlyCancel, nextTick,
                   ticksStarted, ticksDone, ticksLeft, raced,
                   schedDelay, schedCursor, tickMove, popInfo, popCount>>
    /\ UNCHANGED notTimer

\* TimerWheel::tick, lines 72-79: fetch_update advances the cursor and returns
\* the value it replaced
TickAdvance(k) ==
    /\ tickPc[k] = "idle"
    /\ ticksLeft > 0
    /\ ticksLeft' = ticksLeft - 1
    /\ current_slot' = AdvanceCursor(current_slot)
    /\ tickSlot' = [tickSlot EXCEPT ![k] = FetchUpdateResult(current_slot, current_slot')]
    /\ tickMove' = [tickMove EXCEPT ![k] = [old |-> current_slot, new |-> current_slot']]
    /\ tickPc' = [tickPc EXCEPT ![k] = "drain"]
    /\ tickCanceled' = [tickCanceled EXCEPT ![k] = {e \in Timers : canceled[e]}]
    /\ nextTick' = [e \in Timers |->
                      IF timerState[e] \in {"queued", "fired", "skipped"} /\ nextTick[e] = 0
                      THEN k ELSE nextTick[e]]
    /\ raced' = [e \in Timers |-> raced[e] \/ timerState[e] = "created"]
    /\ ticksStarted' = ticksStarted + 1
    /\ UNCHANGED <<slots, next_id, timerState, expiration_slot, canceled, zeroTicks,
                   earlyCancel, ticksDone, schedDelay, schedCursor, popInfo, popCount>>
    /\ UNCHANGED notTimer

\* TimerWheel::tick, lines 82-87, one round of the loop with an entry popped
TickPop(k) ==
    /\ tickPc[k] = "drain"
    /\ SlotQueue(tickSlot[k]) # <<>>
    /\ LET e == Head(SlotQueue(tickSlot[k]))
       IN  /\ slots' = SlotPop(tickSlot[k])
           /\ timerState' = [timerState EXCEPT ![e] = IF ShouldFire(e) THEN "fired" ELSE "skipped"]
           /\ earlyCancel' = [earlyCancel EXCEPT ![e] = e \in tickCanceled[k]]
           /\ popInfo' = [popInfo EXCEPT ![e] =
                              [drained |-> (tickSlot[k] - tickMove[k].old) % WHEEL_SIZE,
                               step |-> (tickMove[k].new - tickMove[k].old) % WHEEL_SIZE]]
           /\ popCount' = [popCount EXCEPT ![e] = @ + 1]
           /\ schedDelay' = [schedDelay EXCEPT ![e] = -1]
           /\ schedCursor' = [schedCursor EXCEPT ![e] = -1]
    /\ UNCHANGED <<current_slot, next_id, expiration_slot, canceled, zeroTicks, tickPc,
                   tickSlot, tickCanceled, nextTick, ticksStarted, ticksDone, ticksLeft, raced,
                   tickMove>>
    /\ UNCHANGED notTimer

\* TimerWheel::tick, line 82: pop() returns None and tick returns
TickReturn(k) ==
    /\ tickPc[k] = "drain"
    /\ SlotQueue(tickSlot[k]) = <<>>
    /\ tickPc' = [tickPc EXCEPT ![k] = "idle"]
    /\ tickSlot' = [tickSlot EXCEPT ![k] = 0]
    /\ tickCanceled' = [tickCanceled EXCEPT ![k] = {}]
    /\ tickMove' = [tickMove EXCEPT ![k] = NoMove]
    /\ nextTick' = [e \in Timers |-> IF nextTick[e] = k THEN -1 ELSE nextTick[e]]
    /\ ticksDone' = ticksDone + 1
    /\ UNCHANGED <<current_slot, slots, next_id, timerState, expiration_slot, canceled,
                   zeroTicks, earlyCancel, ticksStarted, ticksLeft, raced,
                   schedDelay, schedCursor, popInfo, popCount>>
    /\ UNCHANGED notTimer

NextTimer ==
    \/ \E d \in Delays : ScheduleLoad(d)
    \/ \E e \in Timers : SchedulePush(e)
    \/ \E e \in Timers : Cancel(e)
    \/ \E k \in Tickers : TickAdvance(k)
    \/ \E k \in Tickers : TickPop(k)
    \/ \E k \in Tickers : TickReturn(k)


\* ------------------------------------------------------------------------
\* The waker table: slab::Slab<Waker> (reactor.rs:20)
\* A slab is a vector of entries, Occupied(value) or Vacant(next free
\* index), and the head `next` of the list of free indices.  A waker is
\* named by the task it wakes; 0 stands for no waker.
\* ------------------------------------------------------------------------
Occupied(val) == [occ |-> TRUE, v |-> val]
Vacant(nxt) == [occ |-> FALSE, v |-> nxt]

\* Slab::with_capacity: no entry, next = 0
SlabNew == [entries |-> <<>>, next |-> 0]

\* Slab::contains
SlabContains(sl, key) == key + 1 \in DOMAIN sl.entries /\ sl.entries[key + 1].occ

\* Slab::get
SlabGet(sl, key) == IF SlabContains(sl, key) THEN sl.entries[key + 1].v ELSE 0

\* the live keys
SlabLive(sl) == {k \in 0..(Len(sl.entries) - 1) : sl.entries[k + 1].occ}

\* the occupied keys of a slab with the values stored under them
LiveEntries(sl) == [k \in SlabLive(sl) |-> sl.entries[k + 1].v]

\* no register call on a handle yet, or another call on a handle since
NoRegister == [called |-> FALSE, live |-> << >>]

\* an insert that reuses a vacant index and leaves it at the head of the free list
SlabInsertStaleNext(sl, val) ==
    LET key == sl.next
    IN  IF key = Len(sl.entries)
        THEN [entries |-> Append(sl.entries, Occupied(val)), next |-> key + 1]
        ELSE [entries |-> [sl.entries EXCEPT ![key + 1] = Occupied(val)], next |-> key]

\* Slab::insert: the key is `next`; a new entry is pushed when the free list
\* is empty, else the head of the free list is taken
SlabInsert(sl, val) ==
    LET key == sl.next
    IN  IF key = Len(sl.entries)
        THEN [entries |-> Append(sl.entries, Occupied(val)), next |-> key + 1]
        ELSE [entries |-> [sl.entries EXCEPT ![key + 1] = Occupied(val)],
              next |-> sl.entries[key + 1].v]

\* a remove that vacates the entry and forgets to make it the head of the
\* free list
SlabRemoveLeak(sl, key) ==
    [entries |-> [sl.entries EXCEPT ![key + 1] = Vacant(sl.next)], next |-> sl.next]

\* Slab::remove of an occupied key: the entry becomes the head of the free list
SlabRemove(sl, key) ==
    [entries |-> [sl.entries EXCEPT ![key + 1] = Vacant(sl.next)], next |-> key]

\* what callers can observe of the table: the live token -> waker entries and
\* the token the next registration receives
Observable(sl) == [live |-> [k \in SlabLive(sl) |-> SlabGet(sl, k)], next |-> sl.next]

\* the function f without the key k
Without(f, k) == [x \in DOMAIN f \ {k} |-> f[x]]

\* the function f with k mapped to val
With(f, k, val) == [x \in DOMAIN f \cup {k} |-> IF x = k THEN val ELSE f[x]]

\* ------------------------------------------------------------------------
\* Task::schedule and the wakers (task.rs)
\* The pair [sched, queue] is the scheduled flags and the ready queue.
\* ------------------------------------------------------------------------

\* a schedule that enqueues without setting the flag
ScheduleNoFlag(st, t) ==
    IF ~st.sched[t] THEN [sched |-> st.sched, queue |-> Append(st.queue, t)] ELSE st

\* a schedule that enqueues whatever the flag was
ScheduleAlways(st, t) ==
    [sched |-> [st.sched EXCEPT ![t] = TRUE], queue |-> Append(st.queue, t)]

\* Task::schedule: swap(true); push on the ready queue when the flag was false
Schedule(st, t) ==
    IF ~st.sched[t]
    THEN [sched |-> [st.sched EXCEPT ![t] = TRUE], queue |-> Append(st.queue, t)]
    ELSE st

\* Reactor::poll_events, lines 75-79: for each event, wake_by_ref on the waker
\* at its token, if any
RECURSIVE Dispatch(_, _, _)
Dispatch(sl, st, events) ==
    IF events = <<>> THEN st
    ELSE LET w == SlabGet(sl, Head(events))
         IN  Dispatch(sl, IF w # 0 THEN Schedule(st, w) ELSE st, Tail(events))

\* the wakers poll_events invokes for `events`, in order
RECURSIVE Invoked(_, _)
Invoked(sl, events) ==
    IF events = <<>> THEN <<>>
    ELSE LET w == SlabGet(sl, Head(events))
         IN  (IF w # 0 THEN <<w>> ELSE <<>>) \o Invoked(sl, Tail(events))

\* the wakers registered (by the history) under the tokens of `events`, in order
RECURSIVE Expected(_, _)
Expected(reg, events) ==
    IF events = <<>> THEN <<>>
    ELSE (IF Head(events) \in DOMAIN reg THEN <<reg[Head(events)]>> ELSE <<>>)
         \o Expected(reg, Tail(events))

\* the batches Poller::poll may return: up to MaxEvents events, each for a
\* different token
EventBatches ==
    {ev \in UNION {[1..n -> Tokens] : n \in 0..MaxEvents} :
        \A i, j \in DOMAIN ev : i # j => ev[i] # ev[j]}

NoFreed == [token |-> -1, waker |-> 0]
NoPoll == [task |-> 0, n |-> 0]
NoReuse == [token |-> -1, old |-> 0, new |-> 0]

\* Reactor::new
InitReactor ==
    /\ wakers = SlabNew
    /\ task_queue = <<>>
    /\ is_scheduled = [t \in Tasks |-> FALSE]
    /\ panicked = FALSE
    /\ registered = <<>>
    /\ clash = FALSE
    /\ lastFreed = NoFreed
    /\ reused = NoReuse
    /\ lastEvents = <<>>
    /\ lastWoken = <<>>
    /\ lastExpected = <<>>
    /\ rtPre = Observable(SlabNew)
    /\ rtTok = -1
    /\ rtDone = FALSE
    /\ taskState = [t \in Tasks |-> "none"]
    /\ runPc = "idle"
    /\ cur = 0
    /\ polledAny = FALSE
    /\ firstPoll = [t \in Tasks |-> "none"]
    /\ wakesSince = [t \in Tasks |-> 0]
    /\ pushesSince = [t \in Tasks |-> 0]
    /\ pushing = [t \in Tasks |-> 0]
    /\ polledRound = NoPoll
    /\ unpolledWake = [t \in Tasks |-> FALSE]
    /\ hToken = [h \in Handles |-> -1]
    /\ attached = [h \in Handles |-> -1]
    /\ ioResult = "none"
    /\ regPre = NoRegister

\* Reactor::register_waker, called with the waker of task w.  (A panic unwinds
\* the thread that called: the reactor's behaviour is followed up to it.)
RegisterWaker(w) ==
    /\ ~panicked
    /\ Cardinality(SlabLive(wakers)) < MaxSlab
    /\ LET token == wakers.next
       IN  /\ wakers' = SlabInsert(wakers, w)
           /\ clash' = (clash \/ token \in DOMAIN registered)
           /\ registered' = With(registered, token, w)
           /\ rtPre' = Observable(wakers)
           /\ rtTok' = token
           /\ reused' = IF lastFreed.token = token /\ lastFreed.waker # w
                         THEN [token |-> token, old |-> lastFreed.waker, new |-> w]
                         ELSE NoReuse
    /\ lastFreed' = NoFreed
    /\ rtDone' = FALSE
    /\ lastEvents' = <<>> /\ lastWoken' = <<>> /\ lastExpected' = <<>>
    /\ UNCHANGED <<task_queue, is_scheduled, panicked>>
    /\ UNCHANGED notReactor

\* Reactor::deregister: Slab::remove panics ("invalid key") when the key is
\* not occupied; the lock is parking_lot's, which a panic does not poison
Deregister(token) ==
    /\ ~panicked
    /\ IF SlabContains(wakers, token)
       THEN /\ wakers' = SlabRemove(wakers, token)
            /\ lastFreed' = [token |-> token, waker |-> SlabGet(wakers, token)]
            /\ registered' = Without(registered, token)
            /\ rtDone' = (token = rtTok)
            /\ rtPre' = IF token = rtTok THEN rtPre ELSE Observable(SlabNew)
            /\ UNCHANGED panicked
       ELSE /\ panicked' = TRUE
            /\ lastFreed' = NoFreed
            /\ rtDone' = FALSE
            /\ rtPre' = Observable(SlabNew)
            /\ UNCHANGED <<wakers, registered>>
    /\ rtTok' = -1
    /\ reused' = NoReuse
    /\ lastEvents' = <<>> /\ lastWoken' = <<>> /\ lastExpected' = <<>>
    /\ UNCHANGED <<task_queue, is_scheduled, clash>>
    /\ UNCHANGED notReactor

\* Reactor::poll_events with Poller::poll returning Ok(events)
PollEvents(events) ==
    /\ ~panicked
    /\ LET st == Dispatch(wakers, [sched |-> is_scheduled, queue |-> task_queue], events)
       IN  /\ is_scheduled' = st.sched
           /\ task_queue' = st.queue
    /\ lastEvents' = events
    /\ lastWoken' = Invoked(wakers, events)
    /\ lastExpected' = Expected(registered, events)
    /\ UNCHANGED <<wakers, panicked, registered, clash, lastFreed, reused, rtPre, rtTok, rtDone>>
    /\ UNCHANGED notReactor

NextReactor ==
    \/ \E w \in Tasks : RegisterWaker(w)
    \/ \E token \in Tokens : Deregister(token)
    \/ \E events \in EventBatches : PollEvents(events)


\* ------------------------------------------------------------------------
\* The executor (task.rs) and Reactor::run (reactor.rs)
\* ------------------------------------------------------------------------
reactorOnly == <<reactorHist, timerVars, ioVars, wakerVars>>

Min(a, b) == IF a < b THEN a ELSE b

\* a Task::poll whose test of the flag is inverted
ShouldPollInverted(wasScheduled) == ~wasScheduled

\* Task::poll, lines 56-62: the value swap(false) returned decides whether the
\* future is polled
ShouldPoll(wasScheduled) == wasScheduled

\* Reactor::run, lines 105-107: the loop goes on when poll_tasks returned true
KeepsRunning(any) == any

\* a Task::poll whose swap leaves the flag as it found it
FlagAfterSwapKept(old) == old

\* Task::poll, line 59: swap(false) stores false
FlagAfterSwap(old) == FALSE

\* times task t is held by the ready queue or by poll_tasks before Task::poll
\* has cleared its flag
Occurrences(t) ==
    Cardinality({i \in DOMAIN task_queue : task_queue[i] = t})
    + (IF runPc = "task_poll" /\ cur = t THEN 1 ELSE 0)

\* what a call of Task::schedule on t does to the flags, the queue and the counts
DoSchedule(t) ==
    LET st == Schedule([sched |-> is_scheduled, queue |-> task_queue], t)
    IN  /\ is_scheduled' = st.sched
        /\ task_queue' = st.queue
        /\ pushesSince' = [pushesSince EXCEPT ![t] = @ + Len(st.queue) - Len(task_queue)]

\* Task::spawn (called by Reactor::spawn, reactor.rs:91): Task::new, whose flag
\* is false, then the task is marked scheduled and pushed
Spawn(t) ==
    /\ taskState[t] = "none"
    /\ \A u \in Tasks : u < t => taskState[u] # "none"
    /\ taskState' = [taskState EXCEPT ![t] = "pending"]
    /\ DoSchedule(t)
    /\ UNCHANGED <<wakers, panicked, runPc, cur, polledAny, firstPoll, wakesSince,
                   pushing, polledRound, unpolledWake>>
    /\ UNCHANGED reactorOnly

\* Task::wake / Task::wake_by_ref (task.rs:107-117, waker.rs:35-44) called by
\* any thread that holds a waker of t (wakers of t exist once t has been
\* polled), up to the swap(true) of Task::schedule (task.rs:126): the call
\* is over when the flag was set already, else it goes on to spawn_task
Wake(t) ==
    /\ firstPoll[t] = "body"
    /\ pushing[t] < 2
    /\ wakesSince' = [wakesSince EXCEPT ![t] = Min(@ + 1, 2)]
    /\ unpolledWake' = [unpolledWake EXCEPT ![t] = TRUE]
    /\ LET st == Schedule([sched |-> is_scheduled, queue |-> <<>>], t)
       IN  /\ is_scheduled' = st.sched
           /\ pushing' = [pushing EXCEPT ![t] = @ + Len(st.queue)]
    /\ UNCHANGED <<wakers, task_queue, panicked, taskState, runPc, cur, polledAny, firstPoll,
                   pushesSince, polledRound>>
    /\ UNCHANGED reactorOnly

\* Reactor::spawn_task (task.rs:136-139), reached from Task::schedule line
\* 127: the task is pushed on the ready queue
SpawnTask(t) ==
    /\ pushing[t] >= 1
    /\ pushing' = [pushing EXCEPT ![t] = @ - 1]
    /\ task_queue' = Append(task_queue, t)
    /\ pushesSince' = [pushesSince EXCEPT ![t] = @ + 1]
    /\ UNCHANGED <<wakers, is_scheduled, panicked, taskState, runPc, cur, polledAny, firstPoll,
                   wakesSince, polledRound, unpolledWake>>
    /\ UNCHANGED reactorOnly

\* Reactor::run is called
RunStart ==
    /\ runPc = "idle"
    /\ runPc' = "poll_events"
    /\ UNCHANGED <<reactorVars, taskState, cur, polledAny, firstPoll, wakesSince, pushesSince,
                   pushing, polledRound, unpolledWake>>
    /\ UNCHANGED reactorOnly

\* Reactor::run, lines 100-102: poll_events; Ok(events) wakes the tasks, an
\* Err (events = <<>> here) is printed, and the loop goes on to poll_tasks
RunPollEvents(events) ==
    /\ runPc = "poll_events"
    /\ LET st == Dispatch(wakers, [sched |-> is_scheduled, queue |-> task_queue], events)
           woken == {Invoked(wakers, events)[i] : i \in DOMAIN Invoked(wakers, events)}
       IN  /\ is_scheduled' = st.sched
           /\ task_queue' = st.queue
           /\ wakesSince' = [t \in Tasks |-> IF t \in woken THEN Min(wakesSince[t] + 1, 2)
                                             ELSE wakesSince[t]]
           /\ pushesSince' = [t \in Tasks |->
                                pushesSince[t]
                                + Cardinality({i \in DOMAIN st.queue : st.queue[i] = t})
                                - Cardinality({i \in DOMAIN task_queue : task_queue[i] = t})]
           /\ unpolledWake' = [t \in Tasks |-> unpolledWake[t] \/ t \in woken]
    /\ runPc' = "poll_tasks"
    /\ polledAny' = FALSE
    /\ polledRound' = NoPoll
    /\ UNCHANGED <<wakers, panicked, taskState, cur, firstPoll, pushing>>
    /\ UNCHANGED reactorOnly

\* Task::poll_tasks: pop a task from the ready queue
PollTasksPop ==
    /\ runPc = "poll_tasks"
    /\ task_queue # <<>>
    /\ cur' = Head(task_queue)
    /\ task_queue' = Tail(task_queue)
    /\ polledAny' = TRUE
    /\ runPc' = "task_poll"
    /\ UNCHANGED <<wakers, is_scheduled, panicked, taskState, firstPoll, wakesSince, pushesSince,
                   pushing, polledRound, unpolledWake>>
    /\ UNCHANGED reactorOnly

\* Task::poll_tasks finds the queue empty and returns whether it polled a task;
\* Reactor::run, lines 105-107, loops or breaks on that
PollTasksEmpty ==
    /\ runPc = "poll_tasks"
    /\ task_queue = <<>>
    /\ runPc' = IF KeepsRunning(polledAny) THEN "poll_events" ELSE "exited"
    /\ UNCHANGED <<reactorVars, taskState, cur, polledAny, firstPoll, wakesSince, pushesSince,
                   pushing, polledRound, unpolledWake>>
    /\ UNCHANGED reactorOnly

\* Task::poll, lines 56-62: swap(false), and return when the flag was not set
TaskPollSwap ==
    /\ runPc = "task_poll"
    /\ is_scheduled' = [is_scheduled EXCEPT ![cur] = FlagAfterSwap(@)]
    /\ wakesSince' = [wakesSince EXCEPT ![cur] = 0]
    /\ pushesSince' = [pushesSince EXCEPT ![cur] = 0]
    /\ IF ShouldPoll(is_scheduled[cur])
       THEN /\ runPc' = "body"
            /\ firstPoll' = [firstPoll EXCEPT ![cur] = IF @ = "none" THEN "body" ELSE @]
            /\ polledRound' = [task |-> cur,
                               n |-> IF polledRound.task = cur THEN Min(polledRound.n + 1, 2)
                                     ELSE 1]
            /\ unpolledWake' = [unpolledWake EXCEPT ![cur] = FALSE]
            /\ UNCHANGED cur
       ELSE /\ runPc' = "poll_tasks"
            /\ firstPoll' = [firstPoll EXCEPT ![cur] = IF @ = "none" THEN "skipped" ELSE @]
            /\ cur' = 0
            /\ UNCHANGED <<polledRound, unpolledWake>>
    /\ UNCHANGED <<wakers, task_queue, panicked, taskState, polledAny, pushing>>
    /\ UNCHANGED reactorOnly

\* Task::poll, line 71: the future, while polled, registers the task's waker
\* with the reactor (as FastSocket::register does, io.rs:41)
BodyRegister ==
    /\ runPc = "body"
    /\ Cardinality(SlabLive(wakers)) < MaxSlab
    /\ wakers' = SlabInsert(wakers, cur)
    /\ UNCHANGED <<task_queue, is_scheduled, panicked>>
    /\ UNCHANGED execVars
    /\ UNCHANGED reactorOnly

\* Task::poll, line 71: the future deregisters a token it registered
BodyDeregister(token) ==
    /\ runPc = "body"
    /\ SlabGet(wakers, token) = cur
    /\ wakers' = SlabRemove(wakers, token)
    /\ UNCHANGED <<task_queue, is_scheduled, panicked>>
    /\ UNCHANGED execVars
    /\ UNCHANGED reactorOnly

\* Task::poll, lines 71-81: the future returns Pending or Ready; the task's
\* token is None (line 48), so nothing is deregistered on Ready
BodyReturn(ready) ==
    /\ runPc = "body"
    /\ taskState' = [taskState EXCEPT ![cur] = IF ready THEN "ready" ELSE @]
    /\ runPc' = "poll_tasks"
    /\ cur' = 0
    /\ UNCHANGED <<reactorVars, polledAny, firstPoll, wakesSince, pushesSince,
                   pushing, polledRound, unpolledWake>>
    /\ UNCHANGED reactorOnly

\* the steps of the thread that called Reactor::run
RunThread ==
    \/ RunStart
    \/ \E events \in EventBatches : RunPollEvents(events)
    \/ PollTasksPop
    \/ PollTasksEmpty
    \/ TaskPollSwap
    \/ BodyRegister
    \/ \E token \in Tokens : BodyDeregister(token)
    \/ \E ready \in BOOLEAN : BodyReturn(ready)

\* the steps of that thread when no future registers a waker with the
\* reactor and Poller::poll returns no event
RunThreadExec ==
    \/ RunStart
    \/ RunPollEvents(<<>>)
    \/ PollTasksPop
    \/ PollTasksEmpty
    \/ TaskPollSwap
    \/ \E ready \in BOOLEAN : BodyReturn(ready)

\* the executor alone: the tasks are woken by the threads that hold their
\* wakers, and the waker table stays empty
NextExec ==
    \/ \E t \in Tasks : Spawn(t)
    \/ \E t \in Tasks : Wake(t)
    \/ \E t \in Tasks : SpawnTask(t)
    \/ RunThreadExec

Next ==
    \/ \E t \in Tasks : Spawn(t)
    \/ \E t \in Tasks : Wake(t)
    \/ \E t \in Tasks : SpawnTask(t)
    \/ RunThread


\* ------------------------------------------------------------------------
\* The I/O handles (io.rs) and the registry of the poller (poller.rs)
\* mio's Registry: register attaches a source under a token, and fails when
\* the kernel refuses; registering a source that is attached is unspecified
\* (epoll fails with AlreadyExists, kqueue rebinds the source to the new
\* token); reregister and deregister fail with NotFound on a detached source.
\* `kernelOk` is whether the kernel accepts the call.
\* ------------------------------------------------------------------------
notIo == <<timerVars, reactorHist, execVars, wakerVars>>

\* a register that stores the token before it looks at the registry's answer
TokenAfterRegisterEager(old, token, ok) == token

\* FastSocket::register, lines 42-46 (FastListener::register, 114-118): `?`
\* returns on Err before the token field is set
TokenAfterRegister(old, token, ok) == IF ok THEN token ELSE old

\* FastSocket::register (io.rs:40-48) and FastListener::register (112-120),
\* called with the waker of task w
HandleRegister(h, w, kernelOk) ==
    /\ Cardinality(SlabLive(wakers)) < MaxSlab
    /\ LET token == wakers.next
       IN  /\ wakers' = SlabInsert(wakers, w)
           /\ attached' = [attached EXCEPT ![h] = IF kernelOk THEN token ELSE @]
           /\ hToken' = [hToken EXCEPT ![h] = TokenAfterRegister(@, token, kernelOk)]
    /\ ioResult' = IF kernelOk THEN "ok" ELSE "err"
    /\ regPre' = [called |-> TRUE, live |-> LiveEntries(wakers)]
    /\ UNCHANGED <<panicked, task_queue, is_scheduled>>
    /\ UNCHANGED notIo

\* FastSocket::reregister (io.rs:52-60): Ok(()) without a token, else the
\* registry's answer; the token is not changed
HandleReregister(h, kernelOk) ==
    /\ ~IsListener(h)
    /\ ioResult' = IF hToken[h] = -1 \/ (attached[h] # -1 /\ kernelOk) THEN "ok" ELSE "err"
    /\ regPre' = NoRegister
    /\ UNCHANGED <<wakers, panicked, hToken, attached, task_queue, is_scheduled>>
    /\ UNCHANGED notIo

\* FastSocket::deregister (io.rs:64-70) and FastListener::deregister (124-130):
\* the registry first, `?` returning on Err; then token.take() and
\* Reactor::deregister
HandleDeregister(h, kernelOk) ==
    /\ IF attached[h] # -1 /\ kernelOk
       THEN /\ attached' = [attached EXCEPT ![h] = -1]
            /\ hToken' = [hToken EXCEPT ![h] = -1]
            /\ IF hToken[h] = -1
               THEN UNCHANGED <<wakers, panicked>>
               ELSE IF SlabContains(wakers, hToken[h])
                    THEN wakers' = SlabRemove(wakers, hToken[h]) /\ UNCHANGED panicked
                    ELSE panicked' = TRUE /\ UNCHANGED wakers
            /\ ioResult' = "ok"
       ELSE /\ ioResult' = "err"
            /\ UNCHANGED <<wakers, panicked, hToken, attached>>
    /\ regPre' = NoRegister
    /\ UNCHANGED <<task_queue, is_scheduled>>
    /\ UNCHANGED notIo

\* Reactor::poll_events (reactor.rs:69-82) when the poller reports the source
\* of handle h ready: an event with the token the source is attached under
SourceReady(h) ==
    /\ attached[h] # -1
    /\ LET st == Dispatch(wakers, [sched |-> is_scheduled, queue |-> task_queue], <<attached[h]>>)
       IN  /\ is_scheduled' = st.sched
           /\ task_queue' = st.queue
    /\ UNCHANGED <<wakers, panicked, hToken, attached, ioResult, regPre>>
    /\ UNCHANGED notIo

NextIo ==
    \/ \E h \in Handles, w \in Tasks, kernelOk \in BOOLEAN : HandleRegister(h, w, kernelOk)
    \/ \E h \in Handles, kernelOk \in BOOLEAN : HandleReregister(h, kernelOk)
    \/ \E h \in Handles, kernelOk \in BOOLEAN : HandleDeregister(h, kernelOk)
    \/ \E h \in Handles : SourceReady(h)

\* ------------------------------------------------------------------------
\* The wakers of a task and the count of its Arc<Task>
\* (task.rs:85-121; waker.rs:13-39 holds the same four vtable functions)
\* ------------------------------------------------------------------------
notWaker == <<timerVars, reactorHist, execVars, ioVars, wakers, panicked>>

NoClone == [task |-> 0, payload |-> 0, before |-> 0, after |-> 0]

InitWakers ==
    /\ alive = [t \in Tasks |-> "none"]
    /\ strong = [t \in Tasks |-> 0]
    /\ handles = [t \in Tasks |-> 0]
    /\ liveWakers = [t \in Tasks |-> 0]
    /\ lastClone = NoClone
    /\ uaf = FALSE

\* Arc::clone adds one to the strong count; dropping an Arc takes one off
ArcClone(c) == c + 1
ArcDrop(c) == c - 1

\* Task::clone_waker, lines 102-104: from_raw takes over the waker's count
\* without changing it; arc.clone() adds one, which mem::forget keeps; `arc`
\* itself is not forgotten and is dropped when the function returns.
\* (waker.rs:30-32: `arc` is a ManuallyDrop, and the clone, bound to the name
\* `_clone`, is dropped when the function returns.)
CloneWakerCount(c) == ArcDrop(ArcClone(c))

\* the allocation is freed when the last count is dropped
AliveAfter(c) == IF c = 0 THEN "freed" ELSE "live"

\* ready-queue entries that hold task t
QueueEntries(t) == Cardinality({i \in DOMAIN task_queue : task_queue[i] = t})

\* an operation reaches an Arc<Task> that has been freed: undefined behaviour,
\* recorded; the behaviour is followed up to it
UseAfterFree ==
    /\ uaf' = TRUE
    /\ UNCHANGED <<alive, strong, handles, liveWakers, lastClone, task_queue, is_scheduled>>

\* Task::new (task.rs:42-51), put in the Arc that Task::poll's receiver
\* (task.rs:54) and Arc::into_raw (task.rs:86) require
ArcNew(t) ==
    /\ ~uaf
    /\ alive[t] = "none"
    /\ \A u \in Tasks : u < t => alive[u] # "none"
    /\ alive' = [alive EXCEPT ![t] = "live"]
    /\ strong' = [strong EXCEPT ![t] = 1]
    /\ handles' = [handles EXCEPT ![t] = 1]
    /\ UNCHANGED <<liveWakers, lastClone, uaf, task_queue, is_scheduled>>
    /\ UNCHANGED notWaker

\* Task::poll, line 65: self.clone().into_waker(); Arc::into_raw keeps the
\* count of the clone for the waker (task.rs:85-87)
IntoWaker(t) ==
    /\ ~uaf
    /\ handles[t] >= 1
    /\ liveWakers[t] < MaxRefs
    /\ IF alive[t] = "freed" THEN UseAfterFree
       ELSE /\ strong' = [strong EXCEPT ![t] = ArcClone(@)]
            /\ liveWakers' = [liveWakers EXCEPT ![t] = @ + 1]
            /\ UNCHANGED <<alive, handles, lastClone, uaf, task_queue, is_scheduled>>
    /\ UNCHANGED notWaker

\* waker::waker (waker.rs:13-20): a Waker over the address of a borrowed
\* Task; no count is taken for it
WakerFromRef(t) ==
    /\ ~uaf
    /\ handles[t] >= 1
    /\ alive[t] = "live"
    /\ liveWakers[t] < MaxRefs
    /\ liveWakers' = [liveWakers EXCEPT ![t] = @ + 1]
    /\ UNCHANGED <<alive, strong, handles, lastClone, uaf, task_queue, is_scheduled>>
    /\ UNCHANGED notWaker

\* Task::clone_waker (task.rs:101-105; waker.rs:29-33) on a waker of t: the
\* RawWaker returned carries the same pointer
CloneWaker(t) ==
    /\ ~uaf
    /\ liveWakers[t] >= 1
    /\ liveWakers[t] < MaxRefs
    /\ IF alive[t] = "freed" THEN UseAfterFree
       ELSE /\ strong' = [strong EXCEPT ![t] = CloneWakerCount(@)]
            /\ alive' = [alive EXCEPT ![t] = AliveAfter(strong'[t])]
            /\ liveWakers' = [liveWakers EXCEPT ![t] = @ + 1]
            /\ lastClone' = [task |-> t, payload |-> t,
                             before |-> strong[t], after |-> strong'[t]]
            /\ UNCHANGED <<handles, uaf, task_queue, is_scheduled>>
    /\ UNCHANGED notWaker

\* Task::schedule (task.rs:124-129) called through a waker of t: the flag, the
\* queue, and the count, to which the clone pushed on the queue adds one
ScheduleCounted(t) ==
    LET st == Schedule([sched |-> is_scheduled, queue |-> task_queue], t)
    IN  /\ is_scheduled' = st.sched
        /\ task_queue' = st.queue
        /\ strong' = [strong EXCEPT ![t] = @ + Len(st.queue) - Len(task_queue)]

\* Task::wake (task.rs:107-111; waker.rs:35-39): from_raw, schedule, and the
\* Arc is dropped when the function returns; the waker is consumed
WakeByValue(t) ==
    /\ ~uaf
    /\ liveWakers[t] >= 1
    /\ IF alive[t] = "freed" THEN UseAfterFree
       ELSE LET st == Schedule([sched |-> is_scheduled, queue |-> task_queue], t)
                pushed == Len(st.queue) - Len(task_queue)
            IN  /\ is_scheduled' = st.sched
                /\ task_queue' = st.queue
                /\ strong' = [strong EXCEPT ![t] = ArcDrop(@ + pushed)]
                /\ alive' = [alive EXCEPT ![t] = AliveAfter(strong'[t])]
                /\ liveWakers' = [liveWakers EXCEPT ![t] = @ - 1]
                /\ UNCHANGED <<handles, lastClone, uaf>>
    /\ UNCHANGED notWaker

\* Task::wake_by_ref (task.rs:113-117; waker.rs:41-44): from_raw, schedule,
\* and the Arc is forgotten
WakeByRef(t) ==
    /\ ~uaf
    /\ liveWakers[t] >= 1
    /\ IF alive[t] = "freed" THEN UseAfterFree
       ELSE /\ ScheduleCounted(t)
            /\ UNCHANGED <<alive, handles, liveWakers, lastClone, uaf>>
    /\ UNCHANGED notWaker

\* Task::drop_waker (task.rs:119-121; waker.rs:46-48): the Arc rebuilt by
\* from_raw is dropped
DropWaker(t) ==
    /\ ~uaf
    /\ liveWakers[t] >= 1
    /\ IF alive[t] = "freed" THEN UseAfterFree
       ELSE /\ strong' = [strong EXCEPT ![t] = ArcDrop(@)]
            /\ alive' = [alive EXCEPT ![t] = AliveAfter(strong'[t])]
            /\ liveWakers' = [liveWakers EXCEPT ![t] = @ - 1]
            /\ UNCHANGED <<handles, lastClone, uaf, task_queue, is_scheduled>>
    /\ UNCHANGED notWaker

\* an Arc<Task> held by a spawner, or by Task::poll as its receiver
\* (task.rs:54, dropped at line 82), is dropped
DropHandle(t) ==
    /\ ~uaf
    /\ handles[t] >= 1
    /\ IF alive[t] = "freed" THEN UseAfterFree
       ELSE /\ strong' = [strong EXCEPT ![t] = ArcDrop(@)]
            /\ alive' = [alive EXCEPT ![t] = AliveAfter(strong'[t])]
            /\ handles' = [handles EXCEPT ![t] = @ - 1]
            /\ UNCHANGED <<liveWakers, lastClone, uaf, task_queue, is_scheduled>>
    /\ UNCHANGED notWaker

\* Task::poll_tasks pops a task, whose Arc becomes the receiver of Task::poll,
\* and Task::poll clears its flag (task.rs:56-59)
PopTask ==
    /\ ~uaf
    /\ task_queue # <<>>
    /\ LET t == Head(task_queue)
       IN  /\ handles[t] < MaxRefs
           /\ IF alive[t] = "freed" THEN UseAfterFree
              ELSE /\ task_queue' = Tail(task_queue)
                   /\ is_scheduled' = [is_scheduled EXCEPT ![t] = FALSE]
                   /\ handles' = [handles EXCEPT ![t] = @ + 1]
                   /\ UNCHANGED <<alive, strong, liveWakers, lastClone, uaf>>
    /\ UNCHANGED notWaker

NextWaker ==
    \/ \E t \in Tasks : ArcNew(t)
    \/ \E t \in Tasks : IntoWaker(t)
    \/ \E t \in Tasks : WakerFromRef(t)
    \/ \E t \in Tasks : CloneWaker(t)
    \/ \E t \in Tasks : WakeByValue(t)
    \/ \E t \in Tasks : WakeByRef(t)
    \/ \E t \in Tasks : DropWaker(t)
    \/ \E t \in Tasks : DropHandle(t)
    \/ PopTask


\* ------------------------------------------------------------------------
\* Specifications
\* ------------------------------------------------------------------------
InitTimer == InitWheel(StartTicks) /\ InitReactor /\ InitWakers

SpecTimer == InitTimer /\ [][NextTimer]_vars

InitR == InitWheel({0}) /\ InitReactor /\ InitWakers

SpecReactor == InitR /\ [][NextReactor]_vars

Init == InitWheel({0}) /\ InitReactor /\ InitWakers

SpecIo == Init /\ [][NextIo]_vars

Spec == Init /\ [][Next]_vars

SpecWaker == Init /\ [][NextWaker]_vars

SpecExec == Init /\ [][NextExec]_vars

\* the thread in Reactor::run is scheduled (it stops only in Poller::poll,
\* which returns after its timeout), every poll of a future returns, and a
\* thread inside Task::schedule goes on to its push
FairSpec ==
    /\ Spec
    /\ WF_vars(RunThread)
    /\ WF_vars(\E ready \in BOOLEAN : BodyReturn(ready))
    /\ \A t \in Tasks : WF_vars(SpawnTask(t))

\* the same for the executor alone
FairExec ==
    /\ SpecExec
    /\ WF_vars(RunThreadExec)
    /\ WF_vars(\E ready \in BOOLEAN : BodyReturn(ready))
    /\ \A t \in Tasks : WF_vars(SpawnTask(t))

\* ------------------------------------------------------------------------
\* Properties of the timer wheel
\* ------------------------------------------------------------------------

\* C3: a cancelled timer never invokes its waker: an entry whose cancel had
\* completed when the tick() call that popped it began is not fired by that
\* call, and an entry is popped once, so no other call fires it either.
CancelledTimerNeverFires ==
    \A e \in Timers :
        earlyCancel[e] => timerState[e] = "skipped"

\* C3 witness: schedule -> cancel -> tick has run and the tick popped the entry
CancelledTimerPopped ==
    \E e \in Timers : earlyCancel[e] /\ timerState[e] = "skipped"

\* C4: a timer scheduled with ticks = 0 and not cancelled is fired by the
\* first tick() call that begins after schedule returned.  Stated in the
\* form most favourable to the code: once that call has returned and no
\* other tick() call is still running, the entry has been fired.
ZeroDelayFiresOnNextTick ==
    \A e \in Timers :
        (/\ zeroTicks[e] /\ ~canceled[e]
         /\ nextTick[e] = -1
         /\ \A k \in Tickers : tickPc[k] = "idle") => timerState[e] = "fired"

\* The same statement for the schedule calls during which no tick() call
\* advanced the cursor (between the load of line 54 and the push of line 66).
ZeroDelayFiresUnlessRaced ==
    \A e \in Timers :
        (/\ zeroTicks[e] /\ ~canceled[e] /\ ~raced[e]
         /\ nextTick[e] = -1) => timerState[e] = "fired"

\* a zero-delay entry was fired by the tick that followed its schedule call
ZeroDelayFired ==
    \E e \in Timers : zeroTicks[e] /\ ~raced[e] /\ nextTick[e] = -1 /\ timerState[e] = "fired"

\* C5: the cursor stays in [0, 256), every tick() call advances it by one
\* slot modulo 256, and when no call is in progress it equals the number of
\* completed calls modulo 256.
CursorAdvancesOnePerTick ==
    /\ current_slot \in Slots
    /\ current_slot = ticksStarted % WHEEL_SIZE
    /\ (\A k \in Tickers : tickPc[k] = "idle") => current_slot = ticksDone % WHEEL_SIZE

\* C5 witness: the 256th tick has returned and the cursor has wrapped to 0
CursorWrapped ==
    /\ ticksDone = WHEEL_SIZE
    /\ \A k \in Tickers : tickPc[k] = "idle"
    /\ current_slot = 0

\* C14: schedule(delay, waker) places the entry in slot
\* (cursor + floor(delay_ms / 10)) mod 256, cursor being the value schedule
\* read: the entry is in that slot's queue and in no other (so that the tick
\* that drains that slot is the one that fires it); the index is in
\* [0, 256), and it is the slot of the delay reduced modulo 2560 ms.
ScheduleSlotFormula ==
    \A e \in Timers :
        LET want == (schedCursor[e] + (schedDelay[e] \div SLOT_DURATION_MS)) % WHEEL_SIZE
            reduced == schedDelay[e] % (WHEEL_SIZE * SLOT_DURATION_MS)
        IN  timerState[e] = "queued" =>
                /\ \E i \in DOMAIN SlotQueue(want) : SlotQueue(want)[i] = e
                /\ \A s \in DOMAIN slots :
                      (\E i \in DOMAIN slots[s] : slots[s][i] = e) => s = want
                /\ want \in Slots
                /\ want = (schedCursor[e] + (reduced \div SLOT_DURATION_MS)) % WHEEL_SIZE

\* C14 witness: an entry scheduled with a delay past one revolution, while
\* the cursor was at 255, is queued in slot 255
WrappedDelayQueued ==
    \E e \in Timers :
        /\ schedDelay[e] >= WHEEL_SIZE * SLOT_DURATION_MS
        /\ schedCursor[e] = WHEEL_SIZE - 1
        /\ timerState[e] = "queued"
        /\ SlotQueue(WHEEL_SIZE - 1) = <<e>>

\* C15 (as the code has it): tick() advances the cursor by one slot and
\* drains the slot the cursor pointed at BEFORE the advance, the value that
\* fetch_update returns; every entry it pops comes from that slot and is
\* fired unless cancelled.
TickDrainsSlotBeforeAdvance ==
    /\ \A k \in Tickers :
          tickPc[k] = "drain" =>
              /\ tickMove[k].new = (tickMove[k].old + 1) % WHEEL_SIZE
              /\ tickSlot[k] = tickMove[k].old
    /\ \A e \in Timers :
          popInfo[e] # NoPop =>
              /\ popInfo[e].step = 1
              /\ popInfo[e].drained = 0
              /\ timerState[e] = "fired" \/ canceled[e]

\* C15 as stated: tick() drains the slot the cursor points at AFTER the
\* advance, index (old cursor + 1) mod 256.
TickDrainsSlotAfterAdvance ==
    /\ \A k \in Tickers :
          tickPc[k] = "drain" => tickSlot[k] = (tickMove[k].old + 1) % WHEEL_SIZE
    /\ \A e \in Timers :
          popInfo[e] # NoPop => popInfo[e].drained = popInfo[e].step

\* C15 witness: while a tick() call that moved the cursor from 255 to 0 is
\* draining slot 255, an entry has been popped and fired
TickFiredFromOldSlot ==
    /\ \E k \in Tickers :
          /\ tickPc[k] = "drain"
          /\ tickMove[k] = [old |-> WHEEL_SIZE - 1, new |-> 0]
          /\ tickSlot[k] = WHEEL_SIZE - 1
    /\ \E e \in Timers :
          timerState[e] = "fired" /\ popInfo[e] = [drained |-> 0, step |-> 1]

\* C18: tick() calls that overlap have distinct cursor transitions, and so
\* drain distinct slots; an entry is popped by one tick() call only, and its
\* waker is invoked at most once.
ConcurrentTicksDistinct ==
    /\ \A k1, k2 \in Tickers :
          (k1 # k2 /\ tickPc[k1] = "drain" /\ tickPc[k2] = "drain") =>
              /\ tickMove[k1] # tickMove[k2]
              /\ tickSlot[k1] # tickSlot[k2]
    /\ \A e \in Timers :
          /\ popCount[e] <= 1
          /\ popCount[e] = 1 <=> timerState[e] \in {"fired", "skipped"}

\* C18 witness: two tick() calls are in progress at once, and one of them
\* has popped and fired an entry
OverlappingTicksPopped ==
    /\ \A k \in Tickers : tickPc[k] = "drain"
    /\ \E e \in Timers, k \in Tickers :
          /\ timerState[e] = "fired"
          /\ popCount[e] = 1
          /\ SlotQueue(tickSlot[k]) = <<>>

\* ------------------------------------------------------------------------
\* Properties of the waker table
\* ------------------------------------------------------------------------

\* C6: deregister is idempotent: called on a token whose slot is absent
\* (never registered, or already deregistered) it returns without a panic.
DeregisterAbsentIsNoOp == ~panicked

\* C7: register_waker never returns a token whose entry is live, every live
\* token maps to the waker most recently registered under it, and poll_events
\* invokes, for each event, exactly the waker registered under its token.
TokenMapsToLatestWaker ==
    /\ ~clash
    /\ \A token \in Tokens :
          SlabGet(wakers, token) = IF token \in DOMAIN registered THEN registered[token] ELSE 0
    /\ lastWoken = lastExpected

\* C7 witness: a token was registered for one waker, deregistered, returned
\* again for another waker, and an event for it woke that other waker
SlabReuseWakesNewWaker ==
    /\ reused.token # -1
    /\ reused.old # reused.new
    /\ lastEvents = <<reused.token>>
    /\ lastWoken = <<reused.new>>

\* C8: t = register_waker(w); deregister(t) leaves the live entries and the
\* token of the next registration as they were before the registration.
RegisterDeregisterRoundTrip == rtDone => Observable(wakers) = rtPre

\* C8 witness: the round trip has run on a table that held a live entry and
\* a freed index below it
RoundTripOnUsedTable ==
    /\ rtDone
    /\ DOMAIN rtPre.live # {}
    /\ \E k \in DOMAIN rtPre.live : rtPre.next < k

\* ------------------------------------------------------------------------
\* Properties of the executor and of Reactor::run
\* ------------------------------------------------------------------------

\* C1: Reactor::run returns only in a state where the ready queue is empty
\* and the waker table is empty.
RunExitsOnlyWhenQuiescent ==
    [][(runPc # "exited" /\ runPc' = "exited")
         => (task_queue' = <<>> /\ SlabLive(wakers') = {})]_vars

\* C2: whatever the number n >= 1 of wake calls on a task since Task::poll
\* last cleared its flag, one push on the ready queue was made for them (or
\* is being made by the call that set the flag), the task is held once (by
\* that call, by the queue, or popped and about to be polled), and the
\* Task::poll call made for a popped task finds the flag set, so that it
\* polls the body: one poll for the n calls.
WakeCoalescing ==
    /\ \A t \in Tasks :
          wakesSince[t] >= 1 =>
              /\ pushesSince[t] + pushing[t] = 1
              /\ Occurrences(t) + pushing[t] = 1
              /\ is_scheduled[t]
    /\ \A t \in Tasks : Occurrences(t) + pushing[t] <= 1
    /\ runPc = "task_poll" => is_scheduled[cur]

\* C2 witness: several wake calls were made on a task between two polls, and
\* the task, pushed once, has been popped for its one poll
CoalescedWakesPopped ==
    /\ runPc = "task_poll"
    /\ wakesSince[cur] = 2
    /\ pushesSince[cur] = 1
    /\ task_queue = <<>>

\* a spawned task that has not been polled is on the ready queue (or popped)
\* with its flag set, and no task's first Task::poll call returned early
SpawnedAwaitsPoll ==
    \A t \in Tasks :
        /\ (taskState[t] # "none" /\ firstPoll[t] = "none") =>
              (is_scheduled[t] /\ Occurrences(t) = 1)
        /\ firstPoll[t] # "skipped"

ScheduledIffHeld ==
    \A t \in Tasks :
        /\ is_scheduled[t] <=> (Occurrences(t) + pushing[t] >= 1)
        /\ Occurrences(t) + pushing[t] <= 1

\* C13 as stated: in every reachable state a task's scheduled flag is true
\* if and only if the ready queue holds the task, and the queue never holds
\* it more than once.
ScheduledIffQueued ==
    \A t \in Tasks :
        /\ is_scheduled[t] <=> (QueueEntries(t) >= 1)
        /\ QueueEntries(t) <= 1

\* C13 witness: one task has been popped and its flag is not yet cleared,
\* while a wake on another task has set its flag and not yet pushed it
FlagSetOutsideQueue ==
    /\ runPc = "task_poll"
    /\ is_scheduled[cur]
    /\ \E u \in Tasks : u # cur /\ pushing[u] = 1 /\ is_scheduled[u]
    /\ task_queue = <<>>

\* C16: once a task's body has returned Ready, Task::poll does not call the
\* future's poll again.
CompletedNeverPolled ==
    runPc = "body" => taskState[cur] # "ready"

\* C19: within one iteration of the run loop (one poll_events, then one
\* drain of the ready queue), no task has its body polled twice; stated for
\* two polls in a row, which "at most once per iteration" excludes.
PolledOncePerRound == polledRound.n <= 1

\* a task on which a wake call has begun, and whose body has not been polled
\* since, has its flag set and is held once: by the waking call about to
\* push it, by the ready queue, or popped with its flag not yet cleared
WokenAwaitsPoll ==
    \A t \in Tasks :
        unpolledWake[t] => (is_scheduled[t] /\ Occurrences(t) + pushing[t] = 1)

\* C20: no wake is lost: after a wake call on a task that has not completed,
\* whenever it begins, the task stays held for a poll, and its body is
\* polled after the call began, as long as the run loop has not returned.
NoLostWakeup ==
    /\ []WokenAwaitsPoll
    /\ \A t \in Tasks :
          (unpolledWake[t] /\ taskState[t] # "ready" /\ runPc # "exited")
              ~> (~unpolledWake[t] \/ runPc = "exited")

\* C20 witness: a task woken after Task::poll had cleared its flag, while
\* its body was being polled, is being polled again in the same drain
WokenDuringPollPolledAgain ==
    /\ runPc = "body"
    /\ polledRound = [task |-> cur, n |-> 2]
    /\ taskState[cur] = "pending"
    /\ ~unpolledWake[cur]

\* C11: when Reactor::run returns, the ready queue is empty and no live entry
\* of the waker table belongs to a task whose body has returned Ready.
RunLeavesNoCompletedEntries ==
    [][(runPc # "exited" /\ runPc' = "exited")
         => /\ task_queue' = <<>>
            /\ \A k \in SlabLive(wakers') : taskState'[SlabGet(wakers', k)] # "ready"]_vars

\* ------------------------------------------------------------------------
\* Properties of the wakers' reference counts
\* ------------------------------------------------------------------------

\* C12: a clone of a waker returns a waker with the same payload, and the
\* task's reference count, measured after clone returns, is one more than it
\* was before the call.
CloneAddsOneReference ==
    lastClone.task # 0 =>
        /\ lastClone.payload = lastClone.task
        /\ lastClone.after = lastClone.before + 1

\* C17: a task's reference count is at least the number of live wakers that
\* point at it plus the number of ready-queue entries that hold it, and no
\* operation is applied to a task whose count has reached zero.
RefCountCoversHolders ==
    /\ ~uaf
    /\ \A t \in Tasks :
          alive[t] # "none" => strong[t] >= liveWakers[t] + QueueEntries(t)

\* ------------------------------------------------------------------------
\* Properties of the I/O handles
\* ------------------------------------------------------------------------

\* C10: after any sequence of register, reregister and deregister calls,
\* failed ones included, a handle's token is Some(t) if and only if its
\* source is attached to the poller under t and the waker table holds a live
\* entry at t.
TokenIffRegistered ==
    \A h \in Handles : \A token \in Tokens :
        (hToken[h] = token) <=> (attached[h] = token /\ SlabContains(wakers, token))

\* C10 witness: a handle that is registered has just had a call fail
RegisteredAfterFailedCall ==
    \E h \in Handles :
        /\ hToken[h] # -1
        /\ ioResult = "err"
        /\ \E g \in Handles : g # h /\ hToken[g] = -1

\* C21: when FastSocket::register or FastListener::register returns an error
\* (the source is attached already, or the kernel refuses), the waker table
\* holds the entries it held before the call, so every live entry that was
\* not there before the call is referenced by some handle's token.
RegisterFailureAtomic ==
    (regPre.called /\ ioResult = "err") =>
        /\ LiveEntries(wakers) = regPre.live
        /\ \A token \in SlabLive(wakers) \ DOMAIN regPre.live :
              \E h \in Handles : hToken[h] = token

====
